---- MODULE Spec2Model ----
(***************************************************************************)
(* The bundling pipeline of src/src/main.rs (fn main, steps 1 to 5, and    *)
(* fn remove_bundle) as a state machine over the petgraph structures it    *)
(* uses.                                                                   *)
(*                                                                         *)
(* NodeIndex values are modelled 1-based: asset k of the model is          *)
(* NodeIndex(k-1) of the asset graph and bundle k is NodeIndex(k-1) of the *)
(* bundle graph.  Both index spaces share the NodeIndex type in the code,  *)
(* and the code compares values of one space with values of the other      *)
(* (main.rs:187, main.rs:224), so the shift is applied to both.            *)
(***************************************************************************)
EXTENDS Integers, Sequences, FiniteSets, TLC

VARIABLES
  g,                 \* the asset graph returned by build_graph
  entries,           \* the entries returned by build_graph
  pc,                \* position of main: "dfs", "step2", ..., "done"; "panicN": aborted in step N
  starts,            \* depth_first_search: the starts not yet taken
  call,              \* depth_first_search: argument of a pending dfs_visitor call, 0 if none
  path,              \* depth_first_search: the dfs_visitor frames, outermost first
  discovered,        \* depth_first_search: the discovered visit map
  finished,          \* depth_first_search: the finished visit map
  event,             \* the DfsEvent last handed to the step-1 closure
  stack,             \* main.rs:65, front of the LinkedList first
  bundle_roots,      \* main.rs:52, asset |-> (bundle_id, bundle_group_id)
  reachable_bundles, \* main.rs:53
  bundle_graph,      \* main.rs:54
  reachable_nodes,   \* main.rs:125
  bundles,           \* main.rs:152, Vec of assets |-> bundle
  cursor,            \* position of the running `for` over node_indices()
  last,              \* end of the range node_indices() returned to that `for`
  todo,              \* step 5: the entries of bundle_roots not yet taken
  after3,            \* history: bundle_graph as step 3 left it
  after4             \* history: bundle_graph as step 4 left it

vars == <<g, entries, pc, starts, call, path, discovered, finished, event, stack,
          bundle_roots, reachable_bundles, bundle_graph, reachable_nodes, bundles,
          cursor, last, todo, after3, after4>>

(***************************************************************************)
(* Bounds of the inputs, and the constants of the program.                 *)
(***************************************************************************)
MaxAssets == 3
MaxEdges == 2
MaxEntries == 2
MaxFan == 4
MaxShared == 2

MinBundleSize == 10
Limit == 3
FixtureSize == 10

AssetType == <<"HTML", "JavaScript", "CSS">>
AssetSizes == {5, FixtureSize}

(***************************************************************************)
(* Sequence helpers.                                                       *)
(***************************************************************************)
Range(s) == {s[i] : i \in 1..Len(s)}

Reverse(s) == [i \in 1..Len(s) |-> s[Len(s) + 1 - i]]

Perms(S) == {s \in [1..Cardinality(S) -> S] : \A i, j \in 1..Cardinality(S) : s[i] = s[j] => i = j}

(***************************************************************************)
(* petgraph::Graph for the asset graph.  g.edges is in add_edge order;     *)
(* Graph::neighbors walks a node's outgoing list newest edge first.        *)
(***************************************************************************)
NodeCount == Len(g.type)

OutEdges(u) == SelectSeq(g.edges, LAMBDA e : e.from = u)

Neighbors(u) == LET es == Reverse(OutEdges(u)) IN [i \in 1..Len(es) |-> es[i].to]

Successors(u) == {e.to : e \in {x \in Range(g.edges) : x.from = u}}

find_edge(u, v) == LET es == Reverse(SelectSeq(g.edges, LAMBDA e : e.from = u /\ e.to = v)) IN Head(es)

(***************************************************************************)
(* Bundle and the bundle graph.  nodes[k] is the weight of node k; edges   *)
(* is in add_edge order, parallel edges and loops allowed as in petgraph.  *)
(***************************************************************************)
from_asset(asset_id) ==
  [asset_ids |-> <<asset_id>>, size |-> g.size[asset_id], source_bundles |-> <<>>]

BundleDefault == [asset_ids |-> <<>>, size |-> 0, source_bundles |-> <<>>]

EmptyGraph == [nodes |-> <<>>, edges |-> <<>>]

add_node(bg, b) == [bg EXCEPT !.nodes = Append(@, b)]

add_edge(bg, a, b) == [bg EXCEPT !.edges = Append(@, <<a, b>>)]

HasNode(bg, a) == a \in 1..Len(bg.nodes)

BundleNeighbors(bg, a) ==
  LET es == Reverse(SelectSeq(bg.edges, LAMBDA e : e[1] = a)) IN [i \in 1..Len(es) |-> es[i][2]]

IncomingCount(bg, a) == Len(SelectSeq(bg.edges, LAMBDA e : e[2] = a))

HasEdge(bg, a, b) == <<a, b>> \in Range(bg.edges)

\* Graph::remove_edge of the edge find_edge(a, b) returns: the newest a -> b edge.
remove_edge(bg, a, b) ==
  LET k == CHOOSE i \in 1..Len(bg.edges) :
             /\ bg.edges[i] = <<a, b>>
             /\ \A j \in (i + 1)..Len(bg.edges) : bg.edges[j] # <<a, b>>
  IN [bg EXCEPT !.edges = [i \in 1..(Len(bg.edges) - 1) |-> IF i < k THEN bg.edges[i] ELSE bg.edges[i + 1]]]

\* Graph::remove_node: the node's edges go, then Vec::swap_remove moves the
\* last node into the freed index and its edges are re-pointed.
remove_node(bg, a) ==
  LET n == Len(bg.nodes)
      kept == SelectSeq(bg.edges, LAMBDA e : e[1] # a /\ e[2] # a)
      Move(x) == IF x = n THEN a ELSE x
  IN [nodes |-> [i \in 1..(n - 1) |-> IF i = a THEN bg.nodes[n] ELSE bg.nodes[i]],
      edges |-> [i \in 1..Len(kept) |-> <<Move(kept[i][1]), Move(kept[i][2])>>]]

\* bundle.asset_ids.push(asset_id); bundle.size += g[asset_id].size
PushAsset(bg, b, asset_id) ==
  [bg EXCEPT !.nodes[b].asset_ids = Append(@, asset_id),
             !.nodes[b].size = @ + g.size[asset_id]]

(***************************************************************************)
(* Step 1: the closure handed to depth_first_search (main.rs:66-117).      *)
(***************************************************************************)
Insert(map, k, v) == (k :> v) @@ map

\* main.rs:98-104: walk the stack from its front until the asset type differs.
RECURSIVE WalkUp(_, _)
WalkUp(st, v) ==
  IF st = <<>> THEN {}
  ELSE IF g.type[Head(st).asset] # g.type[v] THEN {}
  ELSE {<<Head(st).asset, v>>} \cup WalkUp(Tail(st), v)

OnDiscover(st, asset_id) ==
  IF asset_id \in DOMAIN bundle_roots
  THEN <<[asset |-> asset_id, group |-> bundle_roots[asset_id].bundle_group_id]>> \o st
  ELSE st

\* A pop that does not look at the asset on the front of the stack.
OnFinishAnyFront(st, n) ==
  IF st # <<>> THEN Tail(st) ELSE st

OnFinish(st, n) ==
  IF st # <<>> /\ Head(st).asset = n THEN Tail(st) ELSE st

\* main.rs:58-61: one bundle per entry, each its own bundle group.
RECURSIVE EntryRoots(_, _)
EntryRoots(es, k) ==
  IF k = 0 THEN <<>>
  ELSE Insert(EntryRoots(es, k - 1), es[k], [bundle_id |-> k, bundle_group_id |-> k])

EntryBundles(es) == [nodes |-> [k \in 1..Len(es) |-> from_asset(es[k])], edges |-> <<>>]

NoEvent == [kind |-> "None", u |-> 0, v |-> 0]

\* `for start in starts` of depth_first_search (main.rs:66); the loop's end
\* is the end of step 1.
DfsStart ==
  /\ pc = "dfs" /\ call = 0 /\ path = <<>>
  /\ IF starts = <<>>
     THEN /\ pc' = "step2"
          /\ UNCHANGED <<starts, call>>
     ELSE /\ call' = Head(starts)
          /\ starts' = Tail(starts)
          /\ pc' = pc
  /\ event' = NoEvent
  /\ UNCHANGED <<g, entries, path, discovered, finished, stack, bundle_roots,
                 reachable_bundles, bundle_graph, reachable_nodes, bundles, cursor, last, todo>>
  /\ UNCHANGED <<after3, after4>>

\* dfs_visitor entered: return if the node is discovered, else DfsEvent::Discover
\* (main.rs:68-73).
DfsDiscover ==
  /\ pc = "dfs" /\ call # 0
  /\ call' = 0
  /\ IF call \in discovered
     THEN /\ event' = NoEvent
          /\ UNCHANGED <<path, discovered, stack>>
     ELSE /\ discovered' = discovered \cup {call}
          /\ event' = [kind |-> "Discover", u |-> call, v |-> 0]
          /\ stack' = OnDiscover(stack, call)
          /\ path' = Append(path, [node |-> call, rest |-> Neighbors(call)])
  /\ UNCHANGED <<g, entries, pc, starts, finished, bundle_roots, reachable_bundles,
                 bundle_graph, reachable_nodes, bundles, cursor, last, todo>>
  /\ UNCHANGED <<after3, after4>>

\* DfsEvent::TreeEdge(u, v) (main.rs:74-106), then the recursive dfs_visitor(v).
DfsTreeEdge ==
  /\ pc = "dfs" /\ call = 0 /\ path # <<>>
  /\ path[Len(path)].rest # <<>>
  /\ LET u == path[Len(path)].node
         v == Head(path[Len(path)].rest)
         bundle_id == Len(bundle_graph.nodes) + 1
     IN /\ v \notin discovered
        /\ path' = [path EXCEPT ![Len(path)].rest = Tail(@)]
        /\ event' = [kind |-> "TreeEdge", u |-> u, v |-> v]
        /\ IF g.type[u] # g.type[v]
           THEN IF stack = <<>>
                THEN \* stack.front().unwrap() on an empty list
                     /\ pc' = "panic1"
                     /\ call' = 0
                     /\ UNCHANGED <<bundle_graph, bundle_roots, reachable_bundles>>
                ELSE LET bundle_group_id == Head(stack).group
                     IN /\ bundle_graph' = add_edge(add_node(bundle_graph, from_asset(v)),
                                                    bundle_group_id, bundle_id)
                        /\ bundle_roots' = Insert(bundle_roots, v,
                              [bundle_id |-> bundle_id, bundle_group_id |-> bundle_group_id])
                        /\ call' = v
                        /\ UNCHANGED <<pc, reachable_bundles>>
           ELSE IF find_edge(u, v).is_async
           THEN /\ bundle_graph' = add_node(bundle_graph, from_asset(v))
                /\ bundle_roots' = Insert(bundle_roots, v,
                      [bundle_id |-> bundle_id, bundle_group_id |-> bundle_id])
                /\ reachable_bundles' = reachable_bundles \cup WalkUp(stack, v)
                /\ call' = v
                /\ pc' = pc
           ELSE /\ call' = v
                /\ UNCHANGED <<pc, bundle_graph, bundle_roots, reachable_bundles>>
  /\ UNCHANGED <<g, entries, starts, discovered, finished, stack, reachable_nodes,
                 bundles, cursor, last, todo>>
  /\ UNCHANGED <<after3, after4>>

\* DfsEvent::BackEdge and DfsEvent::CrossForwardEdge: the `_ => {}` arm
\* (main.rs:115).
DfsOtherEdge ==
  /\ pc = "dfs" /\ call = 0 /\ path # <<>>
  /\ path[Len(path)].rest # <<>>
  /\ LET u == path[Len(path)].node
         v == Head(path[Len(path)].rest)
     IN /\ v \in discovered
        /\ path' = [path EXCEPT ![Len(path)].rest = Tail(@)]
        /\ event' = [kind |-> IF v \in finished THEN "CrossForwardEdge" ELSE "BackEdge",
                     u |-> u, v |-> v]
  /\ UNCHANGED <<g, entries, pc, starts, call, discovered, finished, stack, bundle_roots,
                 reachable_bundles, bundle_graph, reachable_nodes, bundles, cursor, last, todo>>
  /\ UNCHANGED <<after3, after4>>

\* DfsEvent::Finish(n) (main.rs:107-114), then dfs_visitor returns.
DfsFinish ==
  /\ pc = "dfs" /\ call = 0 /\ path # <<>>
  /\ path[Len(path)].rest = <<>>
  /\ LET n == path[Len(path)].node
     IN /\ finished' = finished \cup {n}
        /\ event' = [kind |-> "Finish", u |-> n, v |-> 0]
        /\ stack' = OnFinish(stack, n)
        /\ path' = SubSeq(path, 1, Len(path) - 1)
  /\ UNCHANGED <<g, entries, pc, starts, call, discovered, bundle_roots, reachable_bundles,
                 bundle_graph, reachable_nodes, bundles, cursor, last, todo>>
  /\ UNCHANGED <<after3, after4>>


(***************************************************************************)
(* Step 2 (main.rs:125-142): the assets each bundle root reaches without   *)
(* passing another bundle root.  Visit is the depth-first search from one  *)
(* root with its Discover callback; pending holds the nodes still to enter.*)
(***************************************************************************)
RECURSIVE Visit(_, _, _, _)
Visit(root, pending, seen, acc) ==
  IF pending = <<>> THEN acc
  ELSE LET n == Head(pending)
       IN IF n \in seen THEN Visit(root, Tail(pending), seen, acc)
          ELSE IF n = root
               THEN Visit(root, Neighbors(n) \o Tail(pending), seen \cup {n}, acc)
          ELSE IF n \in DOMAIN bundle_roots
               THEN Visit(root, Tail(pending), seen \cup {n}, acc)
          ELSE Visit(root, Neighbors(n) \o Tail(pending), seen \cup {n},
                     acc \cup {<<root, n>>})

ReachableNodes == UNION {Visit(root, <<root>>, {}, {}) : root \in DOMAIN bundle_roots}

Step2 ==
  /\ pc = "step2"
  /\ reachable_nodes' = ReachableNodes
  /\ pc' = "step3"
  /\ cursor' = 1
  /\ last' = NodeCount
  /\ UNCHANGED <<g, entries, starts, call, path, discovered, finished, event, stack,
                 bundle_roots, reachable_bundles, bundle_graph, bundles, todo>>
  /\ UNCHANGED <<after3, after4>>

(***************************************************************************)
(* Step 3 (main.rs:152-192).                                               *)
(***************************************************************************)
\* The sources of the edges into asset_id in reachable_graph (main.rs:156).
Incoming(asset_id) == {p[1] : p \in {q \in reachable_nodes : q[2] = asset_id}}

\* main.rs:159-161
FilterReachable(reachable) ==
  SelectSeq(reachable, LAMBDA b :
    \A i \in 1..Len(reachable) : <<reachable[i], b>> \notin reachable_bundles)

\* main.rs:166-170 and main.rs:186-190: `skip` is the value the loop compares
\* each element of reachable with.
RECURSIVE AddGroupEdges(_, _, _, _)
AddGroupEdges(bg, reachable, skip, bundle_id) ==
  IF reachable = <<>> THEN bg
  ELSE LET a == Head(reachable)
           next == IF a # skip
                   THEN add_edge(bg, bundle_roots[a].bundle_group_id, bundle_id)
                   ELSE bg
       IN AddGroupEdges(next, Tail(reachable), skip, bundle_id)

\* One iteration of the loop over g.node_indices(), with `reachable` already
\* filtered.  ok is FALSE when bundles[&vec![*a]] has no such key.
PlaceAsset(asset_id, reachable) ==
  IF asset_id \in DOMAIN bundle_roots
  THEN LET bundle_id == bundle_roots[asset_id].bundle_id
       IN [ok |-> TRUE,
           bundles |-> IF <<asset_id>> \in DOMAIN bundles THEN bundles
                       ELSE Insert(bundles, <<asset_id>>, bundle_id),
           bg |-> AddGroupEdges(bundle_graph, reachable, asset_id, bundle_id)]
  ELSE IF Len(reachable) > 0
  THEN IF \E i \in 1..Len(reachable) : <<reachable[i]>> \notin DOMAIN bundles
       THEN [ok |-> FALSE, bundles |-> bundles, bg |-> bundle_graph]
       ELSE LET source_bundles == [i \in 1..Len(reachable) |-> bundles[<<reachable[i]>>]]
                found == reachable \in DOMAIN bundles
                bundle_id == IF found THEN bundles[reachable]
                             ELSE Len(bundle_graph.nodes) + 1
                bg1 == IF found THEN bundle_graph
                       ELSE add_node(bundle_graph,
                                     [BundleDefault EXCEPT !.source_bundles = source_bundles])
                bg2 == PushAsset(bg1, bundle_id, asset_id)
            IN [ok |-> TRUE,
                bundles |-> IF found THEN bundles ELSE Insert(bundles, reachable, bundle_id),
                bg |-> AddGroupEdges(bg2, reachable, bundle_id, bundle_id)]
  ELSE [ok |-> TRUE, bundles |-> bundles, bg |-> bundle_graph]

\* The order in which reachable_graph lists the roots of an asset is the
\* iteration order of the HashSet reachable_nodes (main.rs:144): any order.
Step3 ==
  /\ pc = "step3" /\ cursor <= last
  /\ \E order \in Perms(Incoming(cursor)) :
       LET r == PlaceAsset(cursor, FilterReachable(order))
       IN IF r.ok
          THEN /\ bundle_graph' = r.bg
               /\ bundles' = r.bundles
               /\ cursor' = cursor + 1
               /\ pc' = pc
          ELSE /\ pc' = "panic3"
               /\ UNCHANGED <<bundle_graph, bundles, cursor>>
  /\ UNCHANGED <<g, entries, starts, call, path, discovered, finished, event, stack,
                 bundle_roots, reachable_bundles, reachable_nodes, last, todo>>
  /\ UNCHANGED <<after3, after4>>

\* End of the step-3 loop; bundle_graph.node_indices() is taken for step 4
\* (main.rs:197).
Step3Done ==
  /\ pc = "step3" /\ cursor > last
  /\ pc' = "step4"
  /\ cursor' = 1
  /\ last' = Len(bundle_graph.nodes)
  /\ UNCHANGED <<g, entries, starts, call, path, discovered, finished, event, stack,
                 bundle_roots, reachable_bundles, bundle_graph, reachable_nodes, bundles, todo>>
  /\ after3' = bundle_graph
  /\ UNCHANGED after4

(***************************************************************************)
(* remove_bundle (main.rs:254-267) and step 4 (main.rs:197-202).           *)
(***************************************************************************)
\* main.rs:261-265 for one asset: ok is FALSE when a source bundle index is
\* out of bounds.
RECURSIVE PushToSources(_, _, _)
PushToSources(r, asset_id, sources) ==
  IF sources = <<>> \/ ~r.ok THEN r
  ELSE IF ~HasNode(r.bg, Head(sources)) THEN [ok |-> FALSE, bg |-> r.bg]
  ELSE PushToSources([ok |-> TRUE, bg |-> PushAsset(r.bg, Head(sources), asset_id)],
                     asset_id, Tail(sources))

RECURSIVE PushAssets(_, _, _)
PushAssets(r, asset_ids, sources) ==
  IF asset_ids = <<>> \/ ~r.ok THEN r
  ELSE PushAssets(PushToSources(r, Head(asset_ids), sources), Tail(asset_ids), sources)

remove_bundle(bg, bundle_id) ==
  IF ~HasNode(bg, bundle_id) THEN [ok |-> FALSE, bg |-> bg]
  ELSE LET bundle == bg.nodes[bundle_id]
       IN PushAssets([ok |-> TRUE, bg |-> remove_node(bg, bundle_id)],
                     bundle.asset_ids, bundle.source_bundles)

\* One iteration of the step-4 loop.
InlineSmall(bg, bundle_id) ==
  IF ~HasNode(bg, bundle_id) THEN [ok |-> FALSE, bg |-> bg]
  ELSE IF Len(bg.nodes[bundle_id].source_bundles) > 0 /\ bg.nodes[bundle_id].size < MinBundleSize
  THEN remove_bundle(bg, bundle_id)
  ELSE [ok |-> TRUE, bg |-> bg]

Step4 ==
  /\ pc = "step4" /\ cursor <= last
  /\ LET r == InlineSmall(bundle_graph, cursor)
     IN IF r.ok
        THEN /\ bundle_graph' = r.bg
             /\ cursor' = cursor + 1
             /\ pc' = pc
        ELSE /\ pc' = "panic4"
             /\ UNCHANGED <<bundle_graph, cursor>>
  /\ UNCHANGED <<g, entries, starts, call, path, discovered, finished, event, stack,
                 bundle_roots, reachable_bundles, reachable_nodes, bundles, last, todo>>
  /\ UNCHANGED <<after3, after4>>

Step4Done ==
  /\ pc = "step4" /\ cursor > last
  /\ pc' = "step5"
  /\ todo' = DOMAIN bundle_roots
  /\ UNCHANGED <<g, entries, starts, call, path, discovered, finished, event, stack,
                 bundle_roots, reachable_bundles, bundle_graph, reachable_nodes, bundles,
                 cursor, last>>
  /\ after4' = bundle_graph
  /\ UNCHANGED after3


(***************************************************************************)
(* Step 5 (main.rs:205-244).                                               *)
(***************************************************************************)
\* neighbors.sort_by(size): a stable sort, smallest first (main.rs:216).
RECURSIVE SortBySize(_, _)
SortBySize(bg, s) ==
  IF s = <<>> THEN <<>>
  ELSE LET x == s[Len(s)]
           front == SortBySize(bg, SubSeq(s, 1, Len(s) - 1))
           before == SelectSeq(front, LAMBDA y : bg.nodes[y].size <= bg.nodes[x].size)
           after == SelectSeq(front, LAMBDA y : bg.nodes[y].size > bg.nodes[x].size)
       IN before \o <<x>> \o after

\* main.rs:223-228 for one source: every asset of the clone goes to
\* bundles[&vec![source]].  ok is FALSE when the key or the node is missing.
RECURSIVE InlineInto(_, _, _)
InlineInto(r, source, asset_ids) ==
  IF asset_ids = <<>> \/ ~r.ok THEN r
  ELSE IF <<source>> \notin DOMAIN bundles THEN [ok |-> FALSE, bg |-> r.bg]
  ELSE IF ~HasNode(r.bg, bundles[<<source>>]) THEN [ok |-> FALSE, bg |-> r.bg]
  ELSE InlineInto([ok |-> TRUE, bg |-> PushAsset(r.bg, bundles[<<source>>], Head(asset_ids))],
                  source, Tail(asset_ids))

\* main.rs:222-229
RECURSIVE InlineIntoSources(_, _, _)
InlineIntoSources(r, bundle_id, source_bundles) ==
  IF source_bundles = <<>> \/ ~r.ok THEN r
  ELSE InlineIntoSources(
         InlineInto(r, Head(source_bundles), r.bg.nodes[bundle_id].asset_ids),
         bundle_id, Tail(source_bundles))

\* main.rs:236-241
MergeOrDelete(bg, bundle_id) ==
  LET count == IncomingCount(bg, bundle_id)
  IN IF count = 1 THEN remove_bundle(bg, bundle_id)
     ELSE IF count = 0 THEN [ok |-> TRUE, bg |-> remove_node(bg, bundle_id)]
     ELSE [ok |-> TRUE, bg |-> bg]

\* One iteration of the removal loop (main.rs:219-242).  ok is FALSE when an
\* index is out of bounds, a key is missing or find_edge(..).unwrap() fails.
Unlink(bg, bundle_group_id, neighbors, bundle_id) ==
  IF ~HasNode(bg, bundle_id) THEN [ok |-> FALSE, bg |-> bg]
  ELSE LET all == bg.nodes[bundle_id].source_bundles
           source_bundles == SelectSeq(all, LAMBDA x : x \in Range(neighbors))
           kept == SelectSeq(all, LAMBDA x : x \notin Range(neighbors))
           drained == [bg EXCEPT !.nodes[bundle_id].source_bundles = kept]
           inlined == InlineIntoSources([ok |-> TRUE, bg |-> drained], bundle_id, source_bundles)
       IN IF ~inlined.ok THEN inlined
          ELSE IF ~HasEdge(inlined.bg, bundle_group_id, bundle_id)
               THEN [ok |-> FALSE, bg |-> inlined.bg]
          ELSE MergeOrDelete(remove_edge(inlined.bg, bundle_group_id, bundle_id), bundle_id)

RECURSIVE UnlinkAll(_, _, _, _)
UnlinkAll(r, bundle_group_id, neighbors, slice) ==
  IF slice = <<>> \/ ~r.ok THEN r
  ELSE UnlinkAll(Unlink(r.bg, bundle_group_id, neighbors, Head(slice)),
                 bundle_group_id, neighbors, Tail(slice))

\* main.rs:208-214: the root is a bundle-group entry over the limit.
OverLimit(bg, root) ==
  /\ bundle_roots[root].bundle_id = bundle_roots[root].bundle_group_id
  /\ Len(BundleNeighbors(bg, bundle_roots[root].bundle_group_id)) > Limit

\* main.rs:213-216
SortedNeighbors(bg, root) ==
  SortBySize(bg, BundleNeighbors(bg, bundle_roots[root].bundle_group_id))

\* main.rs:219: &neighbors[0..neighbors.len() - limit]
Selected(neighbors) == SubSeq(neighbors, 1, Len(neighbors) - Limit)

\* One iteration of the loop over bundle_roots (main.rs:206-244).
EnforceLimit(bg, root) ==
  IF OverLimit(bg, root)
  THEN UnlinkAll([ok |-> TRUE, bg |-> bg], bundle_roots[root].bundle_group_id,
                 SortedNeighbors(bg, root), Selected(SortedNeighbors(bg, root)))
  ELSE [ok |-> TRUE, bg |-> bg]

\* bundle_roots is a HashMap: its entries come in any order.
Step5 ==
  /\ pc = "step5" /\ todo # {}
  /\ \E root \in todo :
       LET r == EnforceLimit(bundle_graph, root)
       IN IF r.ok
          THEN /\ bundle_graph' = r.bg
               /\ todo' = todo \ {root}
               /\ pc' = pc
          ELSE /\ pc' = "panic5"
               /\ UNCHANGED <<bundle_graph, todo>>
  /\ UNCHANGED <<g, entries, starts, call, path, discovered, finished, event, stack,
                 bundle_roots, reachable_bundles, reachable_nodes, bundles, cursor, last>>
  /\ UNCHANGED <<after3, after4>>

Step5Done ==
  /\ pc = "step5" /\ todo = {}
  /\ pc' = "done"
  /\ UNCHANGED <<g, entries, starts, call, path, discovered, finished, event, stack,
                 bundle_roots, reachable_bundles, bundle_graph, reachable_nodes, bundles,
                 cursor, last, todo>>
  /\ UNCHANGED <<after3, after4>>

(***************************************************************************)
(* Inputs.                                                                 *)
(***************************************************************************)
Edge(u, v, is_async) == [from |-> u, to |-> v, is_async |-> is_async]

\* build_graph (main.rs:269-352)
Fixture ==
  [type |-> <<"HTML", "HTML", "JavaScript", "JavaScript", "JavaScript", "JavaScript",
              "JavaScript", "CSS">>,
   size |-> [i \in 1..8 |-> FixtureSize],
   edges |-> <<Edge(1, 3, FALSE), Edge(3, 4, TRUE), Edge(3, 5, FALSE), Edge(4, 5, FALSE),
               Edge(5, 7, FALSE), Edge(3, 8, FALSE), Edge(2, 6, FALSE), Edge(6, 7, FALSE)>>]

FixtureEntries == <<1, 2>>

\* Sequences of distinct elements of S, of length at most n.
RECURSIVE DistinctSeqs(_, _)
DistinctSeqs(S, n) ==
  IF n = 0 THEN {<<>>}
  ELSE LET shorter == DistinctSeqs(S, n - 1)
       IN shorter \cup UNION {{Append(s, x) : x \in S \ Range(s)} : s \in shorter}

\* The code only compares asset types for equality (main.rs:79, main.rs:100),
\* so a type assignment is taken up to renaming: asset i uses one of the
\* types already used, or the next unused one.
TypeRank(t) == CHOOSE k \in 1..Len(AssetType) : AssetType[k] = t

Canonical(ty) ==
  \A i \in 1..Len(ty) :
    \A k \in 1..(TypeRank(ty[i]) - 1) : \E j \in 1..(i - 1) : TypeRank(ty[j]) = k

TypeAssignments(n) == {ty \in [1..n -> Range(AssetType)] : Canonical(ty)}

\* At most MaxEdges add_edge calls, one per (source, target), no loop.  Only
\* the order of the edges of one source shows in petgraph (each node has its
\* own edge list), so the calls are taken source by source.
EdgeLists(n) ==
  LET pairs == {p \in (1..n) \X (1..n) : p[1] # p[2]}
      orders == {o \in DistinctSeqs(pairs, MaxEdges) :
                   \A i \in 1..(Len(o) - 1) : o[i][1] <= o[i + 1][1]}
  IN UNION {{[i \in 1..Len(o) |-> Edge(o[i][1], o[i][2], f[i])] : f \in [1..Len(o) -> BOOLEAN]}
            : o \in orders}

\* An asset graph whose assets all have the size sz.
SmallGraph(ty, sz, es) == [type |-> ty, size |-> [i \in 1..Len(ty) |-> sz], edges |-> es]

\* is_async is read only after the types of the two assets were found equal
\* (main.rs:79-92): between assets of different types it is left false.
AsyncRead(ty, es) == \A i \in 1..Len(es) : es[i].is_async => ty[es[i].from] = ty[es[i].to]

\* Wide graphs: an HTML entry A (asset 1) and, with second # "none", a second
\* HTML root B (asset 2) that is an entry or the target of an async edge
\* A -> B.  With via, each of A and B has a JavaScript child (jA, jB) that
\* takes its place as the parent of the leaves below.  A has kT children of
\* type CSS; kS leaves are children of both parents, kX of B's parent only.
FanGraph(second, via, kT, kS, kX, sz) ==
  LET hasB == second # "none"
      A == 1
      B == 2
      hubs == IF hasB THEN 2 ELSE 1
      jA == hubs + 1
      jB == hubs + 2
      mids == IF ~via THEN 0 ELSE IF hasB THEN 2 ELSE 1
      pA == IF via THEN jA ELSE A
      pB == IF via THEN jB ELSE B
      T(i) == hubs + mids + i
      S(i) == hubs + mids + kT + i
      X(i) == hubs + mids + kT + kS + i
      n == hubs + mids + kT + kS + kX
      leaf == IF via THEN "JavaScript" ELSE "HTML"
  IN [type |-> [i \in 1..n |-> IF i <= hubs THEN "HTML"
                                ELSE IF i <= hubs + mids THEN "JavaScript"
                                ELSE IF i <= hubs + mids + kT THEN "CSS"
                                ELSE leaf],
      size |-> [i \in 1..n |-> sz],
      edges |-> (IF second = "async" THEN <<Edge(A, B, TRUE)>> ELSE <<>>)
                \o [i \in 1..kT |-> Edge(A, T(i), FALSE)]
                \o (IF via THEN <<Edge(A, jA, FALSE)>> ELSE <<>>)
                \o [i \in 1..kS |-> Edge(pA, S(i), FALSE)]
                \o (IF via /\ hasB THEN <<Edge(B, jB, FALSE)>> ELSE <<>>)
                \o (IF hasB THEN [i \in 1..kS |-> Edge(pB, S(i), FALSE)] ELSE <<>>)
                \o (IF hasB THEN [i \in 1..kX |-> Edge(pB, X(i), FALSE)] ELSE <<>>)]

FanEntries(second) == IF second = "entry" THEN <<1, 2>> ELSE <<1>>

InitWith(graph, es) ==
  /\ g = graph
  /\ entries = es
  /\ pc = "dfs"
  /\ starts = es
  /\ call = 0
  /\ path = <<>>
  /\ discovered = {}
  /\ finished = {}
  /\ event = NoEvent
  /\ stack = <<>>
  /\ bundle_roots = EntryRoots(es, Len(es))
  /\ reachable_bundles = {}
  /\ bundle_graph = EntryBundles(es)
  /\ reachable_nodes = {}
  /\ bundles = <<>>
  /\ cursor = 0
  /\ last = 0
  /\ todo = {}
  /\ after3 = EmptyGraph
  /\ after4 = EmptyGraph

Init ==
  \/ InitWith(Fixture, FixtureEntries)
  \/ \E n \in 1..MaxAssets :
       \E ty \in TypeAssignments(n), sz \in AssetSizes, es \in EdgeLists(n),
          en \in DistinctSeqs(1..n, MaxEntries) :
         AsyncRead(ty, es) /\ InitWith(SmallGraph(ty, sz, es), en)
  \/ \E second \in {"none", "entry", "async"}, via \in BOOLEAN, kT \in 0..MaxFan,
        kS \in 0..MaxShared, kX \in 0..MaxFan, sz \in AssetSizes :
       /\ second = "none" => kS = 0 /\ kX = 0
       /\ InitWith(FanGraph(second, via, kT, kS, kX, sz), FanEntries(second))

Next ==
  \/ DfsStart
  \/ DfsDiscover
  \/ DfsTreeEdge
  \/ DfsOtherEdge
  \/ DfsFinish
  \/ Step2
  \/ Step3
  \/ Step3Done
  \/ Step4
  \/ Step4Done
  \/ Step5
  \/ Step5Done

Spec == Init /\ [][Next]_vars

\* Step 1 alone.  The depth-first search does not read the indices of the
\* assets, so the entries are taken to be the first assets, in order.
InitDfs ==
  \/ InitWith(Fixture, FixtureEntries)
  \/ \E n \in 1..MaxAssets :
       \E ty \in TypeAssignments(n), es \in EdgeLists(n), k \in 0..n :
         AsyncRead(ty, es) /\ InitWith(SmallGraph(ty, FixtureSize, es), [i \in 1..k |-> i])

NextDfs ==
  \/ DfsStart
  \/ DfsDiscover
  \/ DfsTreeEdge
  \/ DfsOtherEdge
  \/ DfsFinish

SpecDfs == InitDfs /\ [][NextDfs]_vars

(***************************************************************************)
(* Properties.                                                             *)
(***************************************************************************)
AssetsOf(bg) == UNION {Range(bg.nodes[k].asset_ids) : k \in 1..Len(bg.nodes)}

\* How many times asset a is listed in the bundles of bg.
Occurrences(bg, a) ==
  Cardinality({p \in UNION {{<<k, i>> : i \in 1..Len(bg.nodes[k].asset_ids)}
                             : k \in 1..Len(bg.nodes)}
                 : bg.nodes[p[1]].asset_ids[p[2]] = a})

RECURSIVE Closure(_)
Closure(S) ==
  LET T == S \cup UNION {Successors(u) : u \in S}
  IN IF T = S THEN S ELSE Closure(T)

\* The assets reachable from some entry.
FromEntries == Closure(Range(entries))

AfterStep1 == pc = "step2"
AfterStep3 == pc = "step4" /\ cursor = 1
AfterStep4 == pc = "step5" /\ todo = DOMAIN bundle_roots
AfterStep5 == pc = "done"

IsShared(b) == b.source_bundles # <<>>

NonRoots == (1..NodeCount) \ DOMAIN bundle_roots

\* R(a) after the filter of main.rs:159-161, as a set.
Surviving(a) == {b \in Incoming(a) : \A x \in Incoming(a) : <<x, b>> \notin reachable_bundles}

GroupEntries == {r \in DOMAIN bundle_roots :
                   bundle_roots[r].bundle_id = bundle_roots[r].bundle_group_id}

\* C1: step 3 runs to completion, and after it every asset reachable from an
\* entry is in at least one bundle.
C1_Coverage ==
  /\ pc # "panic3"
  /\ AfterStep3 => FromEntries \subseteq AssetsOf(bundle_graph)

\* C2: after step 3 every asset reachable from an entry is listed exactly
\* once in the bundles, and no asset is listed twice.
C2_NoDuplication ==
  AfterStep3 =>
    /\ \A a \in FromEntries : Occurrences(bundle_graph, a) = 1
    /\ \A a \in 1..NodeCount : Occurrences(bundle_graph, a) <= 1

\* The bundle Bundle::from_asset made for root r: asset_ids only grows at its
\* end, so the bundle keeps r as its first asset wherever remove_node moves it.
IsBundleOf(b, r) == b.asset_ids # <<>> /\ Head(b.asset_ids) = r /\ ~IsShared(b)

\* C3: after step 5 the bundle of every bundle-group entry has at most Limit
\* outgoing edges.
C3_FanOutCeiling ==
  AfterStep5 =>
    \A r \in GroupEntries : \A k \in 1..Len(bundle_graph.nodes) :
      IsBundleOf(bundle_graph.nodes[k], r) => Len(BundleNeighbors(bundle_graph, k)) <= Limit

\* C4: an asset that is in a bundle after step 3 is in a bundle after step 4
\* and after step 5.
C4_CoveragePreserved ==
  (AfterStep4 \/ AfterStep5) => AssetsOf(after3) \subseteq AssetsOf(bundle_graph)

\* The asset graph of C5: two assets of one type, the entry e and v, and the
\* one edge e -> v, which is async.
AsyncPair ==
  /\ NodeCount = 2 /\ Len(entries) = 1 /\ Len(g.edges) = 1
  /\ g.edges[1].from = entries[1] /\ g.edges[1].to # entries[1]
  /\ g.edges[1].is_async
  /\ g.type[1] = g.type[2]

\* C5: on such a graph the pipeline ends with the two bundles {e} and {v} and
\* an edge from the bundle of e to the bundle of v.
C5_AsyncBoundary ==
  (AfterStep5 /\ AsyncPair) =>
    LET e == g.edges[1].from
        v == g.edges[1].to
    IN /\ Len(bundle_graph.nodes) = 2
       /\ {bundle_graph.nodes[k].asset_ids : k \in 1..2} = {<<e>>, <<v>>}
       /\ HasEdge(bundle_graph, bundle_roots[e].bundle_id, bundle_roots[v].bundle_id)

\* C6: after step 1 and after step 3 the bundle graph has at most one edge
\* per (source, target) and no edge from a bundle to itself.
C6_EdgeUniqueness ==
  (AfterStep1 \/ AfterStep3) =>
    /\ \A i, j \in 1..Len(bundle_graph.edges) :
         bundle_graph.edges[i] = bundle_graph.edges[j] => i = j
    /\ \A i \in 1..Len(bundle_graph.edges) :
         bundle_graph.edges[i][1] # bundle_graph.edges[i][2]

\* C7: after step 3 two assets that are not roots and have the same non-empty
\* surviving root set are in one bundle, and step 3 has created one bundle
\* per surviving root set of two or more roots.
C7_OneBundlePerRootSet ==
  AfterStep3 =>
    /\ \A a, b \in NonRoots :
         (Surviving(a) # {} /\ Surviving(a) = Surviving(b)) =>
           \E k \in 1..Len(bundle_graph.nodes) :
             {a, b} \subseteq Range(bundle_graph.nodes[k].asset_ids)
    /\ Cardinality({k \in 1..Len(bundle_graph.nodes) : IsShared(bundle_graph.nodes[k])})
         = Cardinality({S \in {Surviving(a) : a \in NonRoots} : Cardinality(S) >= 2})

\* C8: step 4 runs to completion; after it no shared bundle smaller than
\* MinBundleSize is left, every asset of a shared bundle that was smaller is
\* in each of that bundle's source bundles, and every other shared bundle is
\* still there.
C8_InlinerComplete ==
  /\ pc # "panic4"
  /\ AfterStep4 =>
       /\ \A k \in 1..Len(bundle_graph.nodes) :
            IsShared(bundle_graph.nodes[k]) => bundle_graph.nodes[k].size >= MinBundleSize
       /\ \A k \in 1..Len(after3.nodes) :
            LET b == after3.nodes[k]
            IN IsShared(b) =>
                 IF b.size < MinBundleSize
                 THEN \A s \in Range(b.source_bundles) :
                        /\ HasNode(bundle_graph, s)
                        /\ Range(b.asset_ids) \subseteq Range(bundle_graph.nodes[s].asset_ids)
                 ELSE \E j \in 1..Len(bundle_graph.nodes) : bundle_graph.nodes[j] = b

\* What loads with the bundle group of root r: the assets of the group's
\* bundle and of the bundles it has an edge to.
GroupLoad(bg, r) ==
  LET group == bundle_roots[r].bundle_group_id
  IN IF HasNode(bg, group)
     THEN Range(bg.nodes[group].asset_ids)
            \cup UNION {Range(bg.nodes[k].asset_ids) : k \in Range(BundleNeighbors(bg, group))}
     ELSE {}

\* The first asset of bundle k of bg: for the bundle of a root, that root.
FirstAsset(bg, k) == Head(bg.nodes[k].asset_ids)

\* C9: after step 5 every asset that loaded with a bundle group before step 5
\* still loads with it, and every bundle without source bundles that a group
\* had an edge to is still at the end of an edge from that group's bundle.
C9_GroupLoadKept ==
  AfterStep5 =>
    /\ \A r \in GroupEntries : GroupLoad(after4, r) \subseteq GroupLoad(bundle_graph, r)
    /\ \A i \in 1..Len(after4.edges) :
         LET from == after4.edges[i][1]
             to == after4.edges[i][2]
         IN ~IsShared(after4.nodes[to]) =>
              \E j \in 1..Len(bundle_graph.edges) :
                /\ FirstAsset(bundle_graph, bundle_graph.edges[j][1]) = FirstAsset(after4, from)
                /\ FirstAsset(bundle_graph, bundle_graph.edges[j][2]) = FirstAsset(after4, to)
                /\ ~IsShared(bundle_graph.nodes[bundle_graph.edges[j][2]])

\* The bundle roots on the path of the depth-first search, outermost first.
RootsOnPath ==
  SelectSeq([i \in 1..Len(path) |-> path[i].node], LAMBDA n : n \in DOMAIN bundle_roots)

\* C10: the stack holds the bundle roots of the current path of the search,
\* the innermost at its front, each with its bundle group: at a tree edge
\* u -> v its front is the nearest root on the path to u, and it is empty
\* when the search ends.
C10_StackDiscipline ==
  /\ [i \in 1..Len(stack) |-> stack[i].asset] = Reverse(RootsOnPath)
  /\ \A i \in 1..Len(stack) : stack[i].group = bundle_roots[stack[i].asset].bundle_group_id
  /\ event.kind = "TreeEdge" =>
       /\ stack # <<>>
       /\ path[Len(path)].node = event.u
       /\ Head(stack).asset = RootsOnPath[Len(RootsOnPath)]
  /\ AfterStep1 => stack = <<>>

\* A tree edge u -> v from an asset u that is no bundle root, so that the
\* front of the stack names a root further up the path than u.
C10_Witness ==
  /\ event.kind = "TreeEdge"
  /\ event.u \notin DOMAIN bundle_roots
  /\ stack # <<>>
  /\ Head(stack).asset # event.u
  /\ Head(stack).asset \in {path[i].node : i \in 1..Len(path)}

====
